---- MODULE Spec2Model ----
(***************************************************************************)
(* A model of the wheel build scripts of pulsar-client-cpp:                *)
(*   docker/zbuild/zbuild.py          (the Dockerfile generator)           *)
(*   python/pkg/build-linux-wheels.py (the generator plus the matrix run)  *)
(*                                                                         *)
(* Text.  A Python str is modelled as a sequence of chunks; the text is    *)
(* the concatenation of the chunks.  Every character the code looks at on  *)
(* its own is a chunk of its own: the characters of version strings, of    *)
(* package names, the quote characters of ENV values and a trailing "/"    *)
(* of a COPY target.  Literal text the code only passes on is one chunk.   *)
(* Names that the code builds as 'pulsar_build_' + name are written with   *)
(* the prefix as a chunk of its own wherever they occur as literals.       *)
(***************************************************************************)
EXTENDS Integers, Sequences, FiniteSets, TLC

None == [cls |-> "None", payload |-> <<>>]

(***************************************************************************)
(* str helpers                                                             *)
(***************************************************************************)

\* AsciiOrder lists the characters that occur in package names and version
\* strings by increasing code point; Ord is the position in it.
AsciiOrder ==
    << "-", ".", "0", "1", "2", "3", "4", "5", "6", "7", "8", "9", "_",
       "a", "b", "c", "d", "e", "f", "g", "h", "i", "j", "k", "l", "m",
       "n", "o", "p", "q", "r", "s", "t", "u", "v", "w", "x", "y", "z" >>

OrdTable ==
    [c \in { AsciiOrder[k] : k \in 1..Len(AsciiOrder) } |->
        CHOOSE k \in 1..Len(AsciiOrder) : AsciiOrder[k] = c]

Ord(c) == OrdTable[c]

Digits == {"0", "1", "2", "3", "4", "5", "6", "7", "8", "9"}

DigitVal(c) == Ord(c) - Ord("0")

\* str < str of Python: lexicographic by code point, a proper prefix first.
RECURSIVE StrLessFrom(_, _, _)
StrLessFrom(a, b, k) ==
    IF k > Len(b) THEN FALSE
    ELSE IF k > Len(a) THEN TRUE
    ELSE IF a[k] = b[k] THEN StrLessFrom(a, b, k + 1)
    ELSE Ord(a[k]) < Ord(b[k])

StrLess(a, b) == StrLessFrom(a, b, 1)

\* parts[lo] sep parts[lo+1] sep ... parts[hi], for lo <= hi; the range is
\* halved so that long templates do not nest deeply.
RECURSIVE JoinRange(_, _, _, _)
JoinRange(parts, sep, lo, hi) ==
    IF lo = hi THEN parts[lo]
    ELSE LET mid == (lo + hi) \div 2
         IN  JoinRange(parts, sep, lo, mid) \o sep \o JoinRange(parts, sep, mid + 1, hi)

\* sep.join(parts)
Join(parts, sep) ==
    IF Len(parts) = 0 THEN <<>> ELSE JoinRange(parts, sep, 1, Len(parts))

\* The merge of two sorted lists from positions ia and ib on; of two equal
\* strings the one of the left list comes first.
RECURSIVE Merge(_, _, _, _)
Merge(a, b, ia, ib) ==
    IF ia > Len(a) THEN SubSeq(b, ib, Len(b))
    ELSE IF ib > Len(b) THEN SubSeq(a, ia, Len(a))
    ELSE IF StrLess(b[ib], a[ia]) THEN <<b[ib]>> \o Merge(a, b, ia, ib + 1)
    ELSE <<a[ia]>> \o Merge(a, b, ia + 1, ib)

\* sorted() of packages[lo..hi], lo <= hi: a stable merge sort.
RECURSIVE SortRange(_, _, _)
SortRange(packages, lo, hi) ==
    IF lo = hi THEN <<packages[lo]>>
    ELSE LET mid == (lo + hi) \div 2
         IN  Merge(SortRange(packages, lo, mid), SortRange(packages, mid + 1, hi), 1, 1)

\* The packages as they were given.
Sorted_AsGiven(packages) == packages

\* sorted(packages)
Sorted(packages) ==
    IF Len(packages) = 0 THEN <<>> ELSE SortRange(packages, 1, Len(packages))

\* s.strip(ch): drops every leading and every trailing ch.
RECURSIVE LStrip(_, _)
LStrip(s, ch) ==
    IF Len(s) > 0 /\ s[1] = ch THEN LStrip(Tail(s), ch) ELSE s

RECURSIVE RStrip(_, _)
RStrip(s, ch) ==
    IF Len(s) > 0 /\ s[Len(s)] = ch THEN RStrip(SubSeq(s, 1, Len(s) - 1), ch) ELSE s

Strip(s, ch) == RStrip(LStrip(s, ch), ch)

\* s.replace(old, new) for a one-character old.
Replace(s, old, new) == [k \in 1..Len(s) |-> IF s[k] = old THEN new ELSE s[k]]

\* url.format(version=..., version_underscore=...): the placeholders are
\* chunks of the template.
RECURSIVE Format(_, _, _)
Format(url, version, version_underscore) ==
    IF Len(url) = 0 THEN <<>>
    ELSE (IF url[1] = "{version}" THEN version
          ELSE IF url[1] = "{version_underscore}" THEN version_underscore
          ELSE <<url[1]>>)
         \o Format(Tail(url), version, version_underscore)

(***************************************************************************)
(* The instruction model (both files, identical)                           *)
(***************************************************************************)

\* A plain str that stands in the template beside the instructions.
Line(s) == [cls |-> "str", payload |-> s]

AssertionError == [cls |-> "AssertionError", payload |-> <<>>]

ValueError == [cls |-> "ValueError", payload |-> <<>>]

IsError(x) == x.cls \in {"AssertionError", "ValueError", "CalledProcessError"}

\* ' && \\\n    '
RunSeparator == <<" && \\\n    ">>

\* RUN.__init__ joining the fragments last to first.
RUN_Reversed(args) ==
    IF Len(args) = 0 THEN AssertionError
    ELSE [cls |-> "RUN",
          payload |-> Join([k \in 1..Len(args) |-> args[Len(args) + 1 - k]], RunSeparator)]

\* RUN.__init__: at least one fragment; the payload joins them in order.
RUN(args) ==
    IF Len(args) = 0 THEN AssertionError
    ELSE [cls |-> "RUN", payload |-> Join(args, RunSeparator)]

\* v.strip('"').strip("'"): the double quotes at both ends go first, then
\* the single quotes at both ends of what is left.
StripQuotes(v) == Strip(Strip(v, "\""), "'")

\* ENV.__init__ (ARG inherits it): the stripped value between double quotes.
EnvPayload(k, v) == k \o <<"=", "\"">> \o StripQuotes(v) \o <<"\"">>

ENV(k, v) == [cls |-> "ENV", payload |-> EnvPayload(k, v)]

ARG(k, v) == [cls |-> "ARG", payload |-> EnvPayload(k, v)]

\* COPY.__init__ without and with copy_from.
CopyPayload(src, target) == src \o <<" ">> \o RStrip(target, "/") \o <<"/">>

COPY(src, target) == [cls |-> "COPY", payload |-> CopyPayload(src, target)]

COPYFrom(src, target, copy_from) ==
    [cls |-> "COPY",
     payload |-> <<"--from=">> \o copy_from \o <<" ">> \o CopyPayload(src, target)]

\* str(x) of a template element: a str is itself, an instruction renders as
\* its class name, a blank and its payload.
Str(x) == IF x.cls = "str" THEN x.payload ELSE <<x.cls, " ">> \o x.payload

\* "\n".join(map(str, template))
Render(template) ==
    Join([k \in 1..Len(template) |-> Str(template[k])], <<"\n">>)

(***************************************************************************)
(* PulsarDependencyDockerInstall and its subclasses.  Where the two files  *)
(* differ the operator takes the file, mod \in {"zbuild", "wheels"}.       *)
(***************************************************************************)

BASE_IMAGE_NAME == <<"pulsar_build_", "common">>

HashWidth == 120

Hashes == [k \in 1..HashWidth |-> "#"]

Workdir == <<"/pulsar/scratch">>

INSTALL_FOLDER == <<"/usr/local/python3">>

\* PulsarDependencyDockerInstall.__init__ past the uniqueness check of
\* zbuild.py: the fields of the new object.
DependencyFields(cls, name, version, url, inline, configure_stanza) ==
    [cls |-> cls,
     name |-> name,
     workdir |-> Workdir,
     version |-> version,
     url |-> Format(url, version, Replace(version, ".", "_")),
     layer_name |-> <<"pulsar_build_">> \o name,
     inline |-> inline,
     configure_stanza |-> configure_stanza]

\* The process-wide registry of zbuild.py: a name already seen fails the
\* assert.  build-linux-wheels.py has no registry and accepts every name.
NameAccepted(mod, name, seen) == mod = "wheels" \/ name \notin seen

\* The registry after a successful construction.
NameSeen(mod, name, seen) == IF mod = "zbuild" THEN seen \cup {name} ELSE seen

\* package_install: apt update, apt install of the sorted names, prune.
package_install(mod, packages, unstable) ==
    RUN(<< <<"apt update">>,
           IF mod = "zbuild"
           THEN <<"apt install -y ">> \o Join(Sorted(packages), <<" ">>)
           ELSE <<"apt install ">> \o Join(Sorted(packages), <<" ">>) \o <<" ">>
                \o (IF unstable THEN <<"-t unstable">> ELSE <<>>) \o <<" -y">>,
           <<"rm -rf /var/lib/apt/lists/*">> >>)

\* package_uninstall: apt update, purge of the sorted names, autoremove, prune.
package_uninstall(packages) ==
    RUN(<< <<"apt update">>,
           <<"apt purge -y ">> \o Join(Sorted(packages), <<" ">>),
           <<"apt autoremove --purge -y">>,
           <<"rm -rf /var/lib/apt/lists/*">> >>)

download(url) == <<"wget -c ">> \o url \o <<" -O - | tar -xzC . --strip-components=1">>

\* The package lists of the two files, one character per chunk.
PythonHeaderPackages ==
    << <<"l", "i", "b", "b", "z", "2", "-", "d", "e", "v">>,
       <<"l", "i", "b", "r", "e", "a", "d", "l", "i", "n", "e", "-", "d", "e", "v">>,
       <<"l", "i", "b", "s", "q", "l", "i", "t", "e", "3", "-", "d", "e", "v">>,
       <<"l", "i", "b", "n", "c", "u", "r", "s", "e", "s", "w", "5", "-", "d", "e", "v">>,
       <<"l", "i", "b", "x", "m", "l", "2", "-", "d", "e", "v">>,
       <<"l", "i", "b", "x", "m", "l", "s", "e", "c", "1", "-", "d", "e", "v">>,
       <<"l", "i", "b", "f", "f", "i", "-", "d", "e", "v">>,
       <<"l", "i", "b", "l", "z", "m", "a", "-", "d", "e", "v">>,
       <<"z", "l", "i", "b", "1", "g">>,
       <<"z", "l", "i", "b", "1", "g", "-", "d", "e", "v">> >>

PythonPurgePackages ==
    << <<"b", "z", "i", "p", "2", "-", "d", "o", "c">>,
       <<"i", "c", "u", "-", "d", "e", "v", "t", "o", "o", "l", "s">>,
       <<"l", "i", "b", "b", "z", "2", "-", "d", "e", "v">>,
       <<"l", "i", "b", "f", "f", "i", "-", "d", "e", "v">>,
       <<"l", "i", "b", "g", "c", "r", "y", "p", "t", "2", "0", "-", "d", "e", "v">>,
       <<"l", "i", "b", "g", "l", "i", "b", "2", ".", "0", "-", "0">>,
       <<"l", "i", "b", "g", "l", "i", "b", "2", ".", "0", "-", "d", "a", "t", "a">>,
       <<"l", "i", "b", "g", "m", "p", "-", "d", "e", "v">>,
       <<"l", "i", "b", "g", "m", "p", "x", "x", "4", "l", "d", "b", "l">>,
       <<"l", "i", "b", "g", "n", "u", "t", "l", "s", "-", "d", "a", "n", "e", "0">>,
       <<"l", "i", "b", "g", "n", "u", "t", "l", "s", "-", "o", "p", "e", "n", "s", "s", "l", "2", "7">>,
       <<"l", "i", "b", "g", "n", "u", "t", "l", "s", "2", "8", "-", "d", "e", "v">>,
       <<"l", "i", "b", "g", "n", "u", "t", "l", "s", "x", "x", "2", "8">>,
       <<"l", "i", "b", "g", "p", "g", "-", "e", "r", "r", "o", "r", "-", "d", "e", "v">>,
       <<"l", "i", "b", "i", "d", "n", "1", "1", "-", "d", "e", "v">>,
       <<"l", "i", "b", "l", "z", "m", "a", "-", "d", "e", "v">>,
       <<"l", "i", "b", "n", "c", "u", "r", "s", "e", "s", "w", "5", "-", "d", "e", "v">>,
       <<"l", "i", "b", "n", "s", "p", "r", "4">>,
       <<"l", "i", "b", "n", "s", "p", "r", "4", "-", "d", "e", "v">>,
       <<"l", "i", "b", "n", "s", "s", "3">>,
       <<"l", "i", "b", "n", "s", "s", "3", "-", "d", "e", "v">>,
       <<"l", "i", "b", "p", "1", "1", "-", "k", "i", "t", "-", "d", "e", "v">>,
       <<"l", "i", "b", "r", "e", "a", "d", "l", "i", "n", "e", "-", "d", "e", "v">>,
       <<"l", "i", "b", "s", "q", "l", "i", "t", "e", "3", "-", "d", "e", "v">>,
       <<"l", "i", "b", "t", "a", "s", "n", "1", "-", "6", "-", "d", "e", "v">>,
       <<"l", "i", "b", "t", "a", "s", "n", "1", "-", "d", "o", "c">>,
       <<"l", "i", "b", "t", "i", "n", "f", "o", "-", "d", "e", "v">>,
       <<"l", "i", "b", "x", "m", "l", "2">>,
       <<"l", "i", "b", "x", "m", "l", "2", "-", "d", "e", "v">>,
       <<"l", "i", "b", "x", "m", "l", "s", "e", "c", "1">>,
       <<"l", "i", "b", "x", "m", "l", "s", "e", "c", "1", "-", "d", "e", "v">>,
       <<"l", "i", "b", "x", "m", "l", "s", "e", "c", "1", "-", "g", "c", "r", "y", "p", "t">>,
       <<"l", "i", "b", "x", "m", "l", "s", "e", "c", "1", "-", "g", "n", "u", "t", "l", "s">>,
       <<"l", "i", "b", "x", "m", "l", "s", "e", "c", "1", "-", "n", "s", "s">>,
       <<"l", "i", "b", "x", "m", "l", "s", "e", "c", "1", "-", "o", "p", "e", "n", "s", "s", "l">>,
       <<"l", "i", "b", "x", "s", "l", "t", "1", "-", "d", "e", "v">>,
       <<"l", "i", "b", "x", "s", "l", "t", "1", ".", "1">>,
       <<"n", "e", "t", "t", "l", "e", "-", "d", "e", "v">>,
       <<"p", "k", "g", "-", "c", "o", "n", "f", "i", "g">>,
       <<"s", "g", "m", "l", "-", "b", "a", "s", "e">>,
       <<"s", "h", "a", "r", "e", "d", "-", "m", "i", "m", "e", "-", "i", "n", "f", "o">>,
       <<"x", "d", "g", "-", "u", "s", "e", "r", "-", "d", "i", "r", "s">>,
       <<"x", "m", "l", "-", "c", "o", "r", "e">> >>

ZPythonHeaderPackages ==
    << <<"l", "i", "b", "b", "z", "2", "-", "d", "e", "v">>,
       <<"l", "i", "b", "r", "e", "a", "d", "l", "i", "n", "e", "-", "d", "e", "v">>,
       <<"l", "i", "b", "s", "q", "l", "i", "t", "e", "3", "-", "d", "e", "v">>,
       <<"l", "i", "b", "n", "c", "u", "r", "s", "e", "s", "w", "5", "-", "d", "e", "v">>,
       <<"l", "i", "b", "x", "m", "l", "2", "-", "d", "e", "v">>,
       <<"l", "i", "b", "x", "m", "l", "s", "e", "c", "1", "-", "d", "e", "v">>,
       <<"l", "i", "b", "f", "f", "i", "-", "d", "e", "v">>,
       <<"l", "i", "b", "l", "z", "m", "a", "-", "d", "e", "v">> >>

ZPythonPurgePackages ==
    << <<"b", "z", "i", "p", "2", "-", "d", "o", "c">>,
       <<"i", "c", "u", "-", "d", "e", "v", "t", "o", "o", "l", "s">>,
       <<"l", "i", "b", "b", "z", "2", "-", "d", "e", "v">>,
       <<"l", "i", "b", "f", "f", "i", "-", "d", "e", "v">>,
       <<"l", "i", "b", "g", "c", "r", "y", "p", "t", "2", "0", "-", "d", "e", "v">>,
       <<"l", "i", "b", "g", "l", "i", "b", "2", ".", "0", "-", "0">>,
       <<"l", "i", "b", "g", "l", "i", "b", "2", ".", "0", "-", "d", "a", "t", "a">>,
       <<"l", "i", "b", "g", "m", "p", "-", "d", "e", "v">>,
       <<"l", "i", "b", "g", "m", "p", "x", "x", "4", "l", "d", "b", "l">>,
       <<"l", "i", "b", "g", "n", "u", "t", "l", "s", "-", "d", "a", "n", "e", "0">>,
       <<"l", "i", "b", "g", "n", "u", "t", "l", "s", "-", "o", "p", "e", "n", "s", "s", "l", "2", "7">>,
       <<"l", "i", "b", "g", "n", "u", "t", "l", "s", "2", "8", "-", "d", "e", "v">>,
       <<"l", "i", "b", "g", "n", "u", "t", "l", "s", "x", "x", "2", "8">>,
       <<"l", "i", "b", "g", "p", "g", "-", "e", "r", "r", "o", "r", "-", "d", "e", "v">>,
       <<"l", "i", "b", "i", "c", "u", "-", "d", "e", "v">>,
       <<"l", "i", "b", "i", "c", "u", "5", "7">>,
       <<"l", "i", "b", "i", "d", "n", "1", "1", "-", "d", "e", "v">>,
       <<"l", "i", "b", "l", "z", "m", "a", "-", "d", "e", "v">>,
       <<"l", "i", "b", "n", "c", "u", "r", "s", "e", "s", "w", "5", "-", "d", "e", "v">>,
       <<"l", "i", "b", "n", "s", "p", "r", "4">>,
       <<"l", "i", "b", "n", "s", "p", "r", "4", "-", "d", "e", "v">>,
       <<"l", "i", "b", "n", "s", "s", "3">>,
       <<"l", "i", "b", "n", "s", "s", "3", "-", "d", "e", "v">>,
       <<"l", "i", "b", "p", "1", "1", "-", "k", "i", "t", "-", "d", "e", "v">>,
       <<"l", "i", "b", "r", "e", "a", "d", "l", "i", "n", "e", "-", "d", "e", "v">>,
       <<"l", "i", "b", "s", "q", "l", "i", "t", "e", "3", "-", "d", "e", "v">>,
       <<"l", "i", "b", "t", "a", "s", "n", "1", "-", "6", "-", "d", "e", "v">>,
       <<"l", "i", "b", "t", "a", "s", "n", "1", "-", "d", "o", "c">>,
       <<"l", "i", "b", "t", "i", "n", "f", "o", "-", "d", "e", "v">>,
       <<"l", "i", "b", "u", "n", "b", "o", "u", "n", "d", "2">>,
       <<"l", "i", "b", "x", "m", "l", "2">>,
       <<"l", "i", "b", "x", "m", "l", "2", "-", "d", "e", "v">>,
       <<"l", "i", "b", "x", "m", "l", "s", "e", "c", "1">>,
       <<"l", "i", "b", "x", "m", "l", "s", "e", "c", "1", "-", "d", "e", "v">>,
       <<"l", "i", "b", "x", "m", "l", "s", "e", "c", "1", "-", "g", "c", "r", "y", "p", "t">>,
       <<"l", "i", "b", "x", "m", "l", "s", "e", "c", "1", "-", "g", "n", "u", "t", "l", "s">>,
       <<"l", "i", "b", "x", "m", "l", "s", "e", "c", "1", "-", "n", "s", "s">>,
       <<"l", "i", "b", "x", "m", "l", "s", "e", "c", "1", "-", "o", "p", "e", "n", "s", "s", "l">>,
       <<"l", "i", "b", "x", "s", "l", "t", "1", "-", "d", "e", "v">>,
       <<"l", "i", "b", "x", "s", "l", "t", "1", ".", "1">>,
       <<"n", "e", "t", "t", "l", "e", "-", "d", "e", "v">>,
       <<"p", "k", "g", "-", "c", "o", "n", "f", "i", "g">>,
       <<"s", "g", "m", "l", "-", "b", "a", "s", "e">>,
       <<"s", "h", "a", "r", "e", "d", "-", "m", "i", "m", "e", "-", "i", "n", "f", "o">>,
       <<"x", "d", "g", "-", "u", "s", "e", "r", "-", "d", "i", "r", "s">>,
       <<"x", "m", "l", "-", "c", "o", "r", "e">> >>

BasePackages ==
    << <<"b", "u", "i", "l", "d", "-", "e", "s", "s", "e", "n", "t", "i", "a", "l">>,
       <<"w", "g", "e", "t">>,
       <<"l", "i", "b", "t", "o", "o", "l">>,
       <<"o", "p", "e", "n", "s", "s", "l">>,
       <<"l", "i", "b", "s", "s", "l", "-", "d", "e", "v">>,
       <<"a", "u", "t", "o", "c", "o", "n", "f">>,
       <<"x", "z", "-", "u", "t", "i", "l", "s">> >>

ZBasePackages ==
    << <<"b", "u", "i", "l", "d", "-", "e", "s", "s", "e", "n", "t", "i", "a", "l">>,
       <<"w", "g", "e", "t">>,
       <<"l", "i", "b", "t", "o", "o", "l">>,
       <<"a", "u", "t", "o", "c", "o", "n", "f">>,
       <<"o", "p", "e", "n", "s", "s", "l">>,
       <<"l", "i", "b", "s", "s", "l", "-", "d", "e", "v">>,
       <<"x", "z", "-", "u", "t", "i", "l", "s">> >>

BasePurgePackages ==
    << <<"c", "u", "r", "l">>,
       <<"p", "y", "t", "h", "o", "n">>,
       <<"p", "y", "t", "h", "o", "n", "3">>,
       <<"z", "l", "i", "b", "1", "g", "-", "d", "e", "v">> >>

\* _build_stanza of the three subclasses.
build_stanza(mod, d) ==
    IF d.cls = "MakefileDependency"
    THEN << download(d.url), d.configure_stanza, <<"make -j$(nproc)">> >>
    ELSE IF d.cls = "PulsarPythonDependency"
    THEN << download(d.url),
            <<"./plugins/python-build/bin/python-build ">> \o d.version \o <<" ">>
                \o INSTALL_FOLDER
                \o (IF mod = "wheels"
                    THEN <<" || cat /tmp/python-build* 1>&2 | grep nonex">>
                    ELSE <<>>),
            <<"if [ -e ">> \o INSTALL_FOLDER \o <<"/include/python3.7m ]; then ln -s ">>
                \o INSTALL_FOLDER \o <<"/include/python3.7m", "/", " ">>
                \o INSTALL_FOLDER \o <<"/include/python3.7; fi">>,
            <<"rm -rf $(pwd)">> >>
    ELSE << download(d.url),
            <<"./bootstrap.sh --with-libraries=python,regex --with-python=python3 --with-python-root=">>
                \o INSTALL_FOLDER,
            <<"./b2 cxxflags=", "\"", "${CXXFLAGS}", "\"",
              " -d0 -q -j $(nproc) address-model=64 link=static threading=multi variant=release install">>,
            <<"rm -rf $(pwd)">> >>

\* _pre_build: the two flag bindings; the Python dependency adds its
\* configure options, the header packages and the guard on INSTALL_FOLDER.
pre_build(mod, d) ==
    << ENV(<<"CFLAGS">>, <<"-fPIC -O3">>), ENV(<<"CXXFLAGS">>, <<"-fPIC -O3">>) >>
    \o (IF d.cls = "PulsarPythonDependency"
        THEN << ENV(<<"CONFIGURE_OPTS">>, <<"--enable-shared">>),
                package_install(mod,
                    IF mod = "zbuild" THEN ZPythonHeaderPackages ELSE PythonHeaderPackages,
                    FALSE),
                RUN(<< <<"test ! -d ">> \o INSTALL_FOLDER >>) >>
        ELSE <<>>)

\* _post_build: nothing, except the purge of the Python dependency.
post_build(mod, d) ==
    IF d.cls = "PulsarPythonDependency"
    THEN << package_uninstall(
                IF mod = "zbuild" THEN ZPythonPurgePackages ELSE PythonPurgePackages) >>
    ELSE <<>>

\* execute_build with ldconfig ahead of the build recipe.
base_execute_build_LdconfigFirst(mod, d) ==
    pre_build(mod, d)
    \o << RUN(<< <<"mkdir -p ">> \o d.workdir, <<"cd ">> \o d.workdir, <<"ldconfig">> >>
              \o build_stanza(mod, d)) >>
    \o post_build(mod, d)

\* PulsarDependencyDockerInstall.execute_build
base_execute_build(mod, d) ==
    pre_build(mod, d)
    \o << RUN(<< <<"mkdir -p ">> \o d.workdir, <<"cd ">> \o d.workdir >>
              \o build_stanza(mod, d)
              \o << <<"ldconfig">> >>) >>
    \o post_build(mod, d)

\* PulsarDependencyDockerInstall.incorporate_build
base_incorporate_build(d) ==
    << RUN(<< <<"mkdir -p ">> \o d.workdir >>),
       COPYFrom(d.workdir, d.workdir, d.layer_name) >>

\* 'FROM <base> AS <name>'
FromLine(base, name) == Line(<<"FROM ">> \o base \o <<" AS ">> \o name)

\* execute_build of the subclasses: MakefileDependency puts a ruler and,
\* unless inline, its stage header first; PulsarPythonDependency of zbuild.py
\* puts the PYTHON_VERSION argument first.
execute_build(mod, d) ==
    IF d.cls = "MakefileDependency"
    THEN << Line(<<"\n">> \o Hashes) >>
         \o (IF ~d.inline THEN << FromLine(BASE_IMAGE_NAME, d.layer_name) >> ELSE <<>>)
         \o base_execute_build(mod, d)
    ELSE IF d.cls = "PulsarPythonDependency" /\ mod = "zbuild"
    THEN << ARG(<<"PYTHON_VERSION">>, <<"3", ".", "8", ".", "1", "3">>) >>
         \o base_execute_build(mod, d)
    ELSE base_execute_build(mod, d)

\* incorporate_build that copies from the stage of an inline dependency too.
incorporate_build_AlwaysCopy(d) ==
    base_incorporate_build(d)
    \o (IF d.cls = "MakefileDependency"
        THEN << RUN(<< <<"cd ">> \o d.workdir, <<"make install">>,
                       <<"rm -rf ">> \o d.workdir, <<"ldconfig">> >>) >>
        ELSE <<>>)

\* incorporate_build: MakefileDependency copies its stage's workdir unless
\* it is inline and then installs from it; the other classes inherit the
\* copy alone.
incorporate_build(d) ==
    IF d.cls = "MakefileDependency"
    THEN (IF ~d.inline THEN base_incorporate_build(d) ELSE <<>>)
         \o << RUN(<< <<"cd ">> \o d.workdir, <<"make install">>,
                      <<"rm -rf ">> \o d.workdir, <<"ldconfig">> >>) >>
    ELSE base_incorporate_build(d)

(***************************************************************************)
(* dockerfile_lines                                                        *)
(***************************************************************************)

DefaultConfigure == <<"test -e configure && ./configure || true">>

\* One MakefileDependency(...) call as written in layer_dependencies.
MakefileSpec(name, version, url, configure_stanza) ==
    [name |-> name, version |-> version, url |-> url, inline |-> FALSE,
     configure_stanza |-> configure_stanza]

\* layer_dependencies as the two files write it (zlib differs in version).
layer_dependencies(mod) ==
    << MakefileSpec(<<"protobuf">>, <<"3", ".", "1", "9", ".", "2">>,
           <<"https://github.com/protocolbuffers/protobuf/releases/download/v", "{version}",
             "/protobuf-cpp-", "{version}", ".tar.gz">>, DefaultConfigure),
       MakefileSpec(<<"zlib">>, IF mod = "zbuild" THEN <<"1", ".", "2", ".", "1", "2">> ELSE <<"1", ".", "2", ".", "1", "3">>,
           <<"https://zlib.net/zlib-", "{version}", ".tar.gz">>, DefaultConfigure),
       MakefileSpec(<<"curl">>, <<"7", ".", "6", "1", ".", "0">>,
           <<"https://github.com/curl/curl/releases/download/curl-", "{version_underscore}",
             "/curl-", "{version}", ".tar.gz">>, DefaultConfigure),
       MakefileSpec(<<"zstd">>, <<"1", ".", "3", ".", "7">>,
           <<"https://github.com/facebook/zstd/releases/download/v", "{version}",
             "/zstd-", "{version}", ".tar.gz">>, <<"true">>),
       MakefileSpec(<<"snappy">>, <<"1", ".", "1", ".", "3">>,
           <<"https://github.com/google/snappy/releases/download/", "{version}",
             "/snappy-", "{version}", ".tar.gz">>, DefaultConfigure),
       MakefileSpec(<<"patchelf">>, <<"0", ".", "1", "2">>,
           <<"https://github.com/NixOS/patchelf/archive/refs/tags/", "{version}", ".tar.gz">>,
           <<"./bootstrap.sh && ./configure">>),
       MakefileSpec(<<"gtest">>, <<"1", ".", "1", "0", ".", "0">>,
           <<"https://github.com/google/googletest/archive/refs/tags/release-", "{version}",
             ".tar.gz">>, <<"cmake .">>) >>

\* The constructor calls of a list of dependencies, in order, against the
\* registry: [ok, objs, seen].  The first rejected name ends the
\* construction; the names registered before it stay registered.
RECURSIVE ConstructAll(_, _, _)
ConstructAll(mod, specs, seen) ==
    IF Len(specs) = 0 THEN [ok |-> TRUE, objs |-> <<>>, seen |-> seen]
    ELSE IF ~NameAccepted(mod, specs[1].name, seen)
    THEN [ok |-> FALSE, objs |-> <<>>, seen |-> seen]
    ELSE LET rest == ConstructAll(mod, Tail(specs), NameSeen(mod, specs[1].name, seen))
         IN  [ok |-> rest.ok,
              objs |-> << DependencyFields("MakefileDependency", specs[1].name,
                              specs[1].version, specs[1].url, specs[1].inline,
                              specs[1].configure_stanza) >> \o rest.objs,
              seen |-> rest.seen]

\* PulsarBoostDependency(version=...)
PulsarBoostDependency(mod) ==
    DependencyFields("PulsarBoostDependency", <<"boost">>,
        IF mod = "zbuild" THEN <<"1", ".", "7", "2", ".", "0">> ELSE <<"1", ".", "7", "8", ".", "0">>,
        <<"https://boostorg.jfrog.io/artifactory/main/release/", "{version}",
          "/source/boost_", "{version_underscore}", ".tar.gz">>, FALSE, <<>>)

\* PulsarPythonDependency() of zbuild.py, PulsarPythonDependency(self.python)
\* of build-linux-wheels.py.
PulsarPythonDependency(mod, python_version) ==
    DependencyFields("PulsarPythonDependency", <<"python">>,
        IF mod = "zbuild" THEN <<"${PYTHON_VERSION}">> ELSE python_version,
        <<"github.com/pyenv/pyenv/archive/refs/heads/master.tar.gz">>, FALSE, <<>>)

\* The head of the template: the common base stage.
TemplateHead(mod, builder_os) ==
    << FromLine(builder_os, BASE_IMAGE_NAME),
       RUN(<< <<"echo 'exec ls -lah ", "\"", "$@", "\"", "' > /usr/local/bin/ll">>,
              <<"chmod +x /usr/local/bin/ll">>,
              <<"mkdir -p /pulsar/scratch">>,
              <<"mkdir -p /pulsar/build">> >>),
       package_install(mod, IF mod = "zbuild" THEN ZBasePackages ELSE BasePackages, FALSE),
       package_uninstall(BasePurgePackages),
       RUN(<< <<"rm -rf /usr/lib/python* /usr/local/lib/python* /usr/local/bin/python*">> >>),
       RUN(<< <<"wget -c https://cmake.org/files/v3.22/cmake-3.22.6-linux-$(arch).tar.gz -O - | tar -xzC /usr/local --strip-components=1">> >>) >>

\* for md in layer_dependencies: template.extend(md.execute_build())
RECURSIVE ExecuteAll(_, _)
ExecuteAll(mod, objs) ==
    IF Len(objs) = 0 THEN <<>>
    ELSE execute_build(mod, objs[1]) \o ExecuteAll(mod, Tail(objs))

\* The consuming stage: its header, the Python build, PATH, the boost build.
TemplateMain(mod, python, boost) ==
    << Line(<<"\n">>),
       Line(Hashes),
       FromLine(BASE_IMAGE_NAME, <<"pulsar_build_", "main">>) >>
    \o execute_build(mod, python)
    \o << ENV(<<"PATH">>, INSTALL_FOLDER \o <<"/bin:$PATH">>) >>
    \o execute_build(mod, boost)

\* for md in layer_dependencies: the comment and md.incorporate_build()
RECURSIVE IncorporateAll(_)
IncorporateAll(objs) ==
    IF Len(objs) = 0 THEN <<>>
    ELSE << Line(<<"\n">>), Line(<<"# Incorporate build ">> \o objs[1].layer_name) >>
         \o incorporate_build(objs[1])
         \o IncorporateAll(Tail(objs))

pypath == INSTALL_FOLDER \o <<"/bin/python3">>

\* The tail of the template: pip tooling, the source tree, the client build
\* and the wheel.
TemplateTail(mod, wheel_platform) ==
    << RUN(<< pypath \o <<" -m ensurepip --upgrade">>,
              pypath \o <<" -m pip install --upgrade pip">>,
              pypath \o (IF mod = "zbuild"
                         THEN <<" -m pip install --upgrade pip six grpcio-tools==1.44.0 certifi auditwheel setuptools wheel">>
                         ELSE <<" -m pip install --upgrade pip six grpcio-tools==1.44.0 certifi auditwheel==5.1.2 setuptools wheel">>),
              pypath \o <<" -m pip cache purge">> >>),
       COPY(<<".", "/">>, <<"/pulsar/build", "/">>),
       Line(<<"WORKDIR /pulsar/build/pulsar-client-cpp">>),
       ENV(<<"CXXFLAGS">>, <<>>),
       ENV(<<"CFLAGS">>, <<>>),
       ENV(<<"USE_FULL_POM_NAME">>, <<"True">>),
       RUN(<< <<"find . -name CMakeCache.txt | xargs -r rm -rf">>,
              IF mod = "zbuild"
              THEN <<"find . -name CMakeFiles.txt | xargs -r rm -rf">>
              ELSE <<"find . -name CMakeFiles | xargs -r rm -rf">>,
              <<"find . -name \\*.egg-info | xargs -r rm -rf">>,
              <<"rm -rf python/wheelhouse python/build python/dist">>,
              <<"cmake . -DLINK_STATIC=ON -DBUILD_TESTS=ON">>,
              <<"make clean">>,
              <<"make pulsarShared pulsarStatic _pulsar -j$(nproc)">> >>),
       Line(<<"WORKDIR /pulsar/build/pulsar-client-cpp/python">>),
       RUN(<< pypath \o <<" setup.py bdist_wheel">>,
              pypath \o (IF mod = "zbuild" THEN <<" -mauditwheel --verbose repair --plat ">>
                         ELSE <<" -m auditwheel --verbose repair --plat ">>)
                     \o wheel_platform \o <<"_$(arch) dist/pulsar_client*.whl">>,
              pypath \o (IF mod = "zbuild" THEN <<" -mpip install wheelhouse/*.whl">>
                         ELSE <<" -m pip install wheelhouse/*.whl">>),
              <<"cd /">>,
              pypath \o <<" -c ", "\"", "import pulsar", "\"">>,
              pypath \o <<" -c ", "\"",
                          "import logging; from grpc_tools.protoc import main as protoc; import pulsar;",
                          "\"">> >>) >>

\* dockerfile_lines of file mod for the dependency list specs, called with
\* the registry seen: [ok, template, seen].  self is the PulsarClientBuild of
\* build-linux-wheels.py; zbuild.py fixes debian:9 and manylinux_2_24.  The
\* dependencies are constructed in the order of the code: the list, then
\* boost, then python; a rejected name raises and leaves no template.
dockerfile_lines(mod, self, specs, seen) ==
    LET made     == ConstructAll(mod, specs, seen)
        boostOk  == made.ok /\ NameAccepted(mod, <<"boost">>, made.seen)
        seenB    == IF boostOk THEN NameSeen(mod, <<"boost">>, made.seen) ELSE made.seen
        pythonOk == boostOk /\ NameAccepted(mod, <<"python">>, seenB)
        seenP    == IF pythonOk THEN NameSeen(mod, <<"python">>, seenB) ELSE seenB
        boost    == PulsarBoostDependency(mod)
        python   == PulsarPythonDependency(mod, self.python)
    IN  IF ~pythonOk
        THEN [ok |-> FALSE, template |-> <<>>, seen |-> seenP]
        ELSE [ok |-> TRUE,
              template |->
                  TemplateHead(mod, IF mod = "zbuild" THEN <<"debian:9">> ELSE self.builder_os)
                  \o ExecuteAll(mod, made.objs)
                  \o TemplateMain(mod, python, boost)
                  \o IncorporateAll(made.objs)
                  \o TemplateTail(mod, IF mod = "zbuild" THEN <<"manylinux_2_24">>
                                       ELSE self.wheel_platform),
              seen |-> seenP]

(***************************************************************************)
(* distutils.version.StrictVersion as PulsarClientBuild.__init__ uses it   *)
(***************************************************************************)

\* The length of the run of digits of s that starts at position k.
RECURSIVE DigitRun(_, _)
DigitRun(s, k) ==
    IF k <= Len(s) /\ s[k] \in Digits THEN 1 + DigitRun(s, k + 1) ELSE 0

\* int(digits)
RECURSIVE ToInt(_)
ToInt(ds) ==
    IF Len(ds) = 0 THEN 0
    ELSE 10 * ToInt(SubSeq(ds, 1, Len(ds) - 1)) + DigitVal(ds[Len(ds)])

\* StrictVersion.parse: ^(\d+)\.(\d+)(\.(\d+))?([ab](\d+))?$ ; the patch
\* defaults to 0.  A string that does not match raises ValueError.
StrictVersion(s) ==
    LET n1 == DigitRun(s, 1)
        p2 == n1 + 2
        n2 == DigitRun(s, p2)
        e2 == p2 + n2
        hasPatch == e2 <= Len(s) /\ s[e2] = "." /\ DigitRun(s, e2 + 1) > 0
        n3 == IF hasPatch THEN DigitRun(s, e2 + 1) ELSE 0
        e3 == IF hasPatch THEN e2 + 1 + n3 ELSE e2
        hasPre == e3 <= Len(s) /\ s[e3] \in {"a", "b"} /\ DigitRun(s, e3 + 1) > 0
        n4 == IF hasPre THEN DigitRun(s, e3 + 1) ELSE 0
        e4 == IF hasPre THEN e3 + 1 + n4 ELSE e3
    IN  IF n1 > 0 /\ n1 + 1 <= Len(s) /\ s[n1 + 1] = "." /\ n2 > 0 /\ e4 = Len(s) + 1
        THEN [cls |-> "StrictVersion",
              version |-> << ToInt(SubSeq(s, 1, n1)),
                             ToInt(SubSeq(s, p2, e2 - 1)),
                             IF hasPatch THEN ToInt(SubSeq(s, e2 + 1, e3 - 1)) ELSE 0 >>,
              prerelease |-> IF hasPre
                             THEN << Ord(s[e3]), ToInt(SubSeq(s, e3 + 1, e4 - 1)) >>
                             ELSE <<>>]
        ELSE [cls |-> "ValueError", version |-> <<>>, prerelease |-> <<>>]

\* tuple < tuple of Python on tuples of numbers of equal length.
RECURSIVE TupleLess(_, _)
TupleLess(a, b) ==
    IF Len(a) = 0 \/ Len(b) = 0 THEN FALSE
    ELSE IF a[1] = b[1] THEN TupleLess(Tail(a), Tail(b))
    ELSE a[1] < b[1]

\* StrictVersion._cmp: the numbers decide; on equal numbers a prerelease is
\* less than the release and two prereleases compare as tuples.
VersionCmp(a, b) ==
    IF a.version # b.version
    THEN (IF TupleLess(a.version, b.version) THEN -1 ELSE 1)
    ELSE IF a.prerelease = <<>> /\ b.prerelease = <<>> THEN 0
    ELSE IF a.prerelease # <<>> /\ b.prerelease = <<>> THEN -1
    ELSE IF a.prerelease = <<>> /\ b.prerelease # <<>> THEN 1
    ELSE IF a.prerelease = b.prerelease THEN 0
    ELSE IF TupleLess(a.prerelease, b.prerelease) THEN -1
    ELSE 1

\* python >= '3.10' on the strings themselves.
AtLeastCutoff_Lexicographic(python) == ~StrLess(python, <<"3", ".", "1", "0">>)

\* StrictVersion(python) >= StrictVersion('3.10')
AtLeastCutoff(python) ==
    VersionCmp(StrictVersion(python), StrictVersion(<<"3", ".", "1", "0">>)) >= 0

(***************************************************************************)
(* PulsarClientBuild                                                       *)
(***************************************************************************)

ARCHS == <<"arm64", "amd64">>

\* __init__ without its assert.
ArchSupported_Unchecked(arch) == TRUE

\* assert arch in self.ARCHS
ArchSupported(arch) == \E k \in 1..Len(ARCHS) : ARCHS[k] = arch

\* PulsarClientBuild.__init__: the new object, or the exception it raises.
PulsarClientBuild(python, arch) ==
    IF ~ArchSupported(arch)
    THEN [cls |-> "AssertionError", arch |-> arch, python |-> python,
          builder_os |-> <<>>, wheel_platform |-> <<>>]
    ELSE IF StrictVersion(python).cls = "ValueError"
    THEN [cls |-> "ValueError", arch |-> arch, python |-> python,
          builder_os |-> <<>>, wheel_platform |-> <<>>]
    ELSE IF AtLeastCutoff(python)
    THEN [cls |-> "PulsarClientBuild", arch |-> arch, python |-> python,
          builder_os |-> <<"debian:10">>, wheel_platform |-> <<"manylinux_2_27">>]
    ELSE [cls |-> "PulsarClientBuild", arch |-> arch, python |-> python,
          builder_os |-> <<"debian:9">>, wheel_platform |-> <<"manylinux_2_24">>]

\* PulsarClientBuild.__str__
BuildStr(self) ==
    <<"python ">> \o self.python \o <<" on ">> \o self.builder_os
    \o <<" to generate a ", self.arch, " ">> \o self.wheel_platform \o <<" wheel">>

\* A container name that leaves the architecture out.
container_name_NoArch(self) == <<"pulsar_python_client_build", "_">> \o self.python

\* PulsarClientBuild.container_name
container_name(self) ==
    <<"pulsar_python_client_build", "_">> \o self.python \o <<"_", self.arch>>

(***************************************************************************)
(* State                                                                   *)
(***************************************************************************)

VARIABLES
    \* main of build-linux-wheels.py
    pythons,      \* the versions the outer loop runs over
    archs,        \* the architectures the inner loop runs over
    native,       \* the architecture of the machine that runs main
    pc,           \* where main is
    i, j,         \* the positions of the two loops
    build,        \* the PulsarClientBuild of the current iteration
    dockerfile,   \* the contents of the temporary Dockerfile, while it exists
    log,          \* the engine calls made so far, with their exit status
    raised,       \* the exception that ended main
    enumerated,   \* history: the (python, arch) pairs resolved so far
    stdout,       \* what main printed
    \* one process that calls dockerfile_lines
    program,      \* the file the process runs
    deps,         \* the dependency list the generator is run with
    target,       \* the PulsarClientBuild the generator is run for
    seen_names,   \* PulsarDependencyDockerInstall._seen_names
    calls,        \* the outcome of each call of dockerfile_lines so far
    \* one resolution of a target
    arg_python, arg_arch, resolved,
    \* one construction of a RUN
    run_args, run_result,
    \* one construction of an ENV or ARG
    env_cls, env_k, env_v, env_result,
    \* one call of package_install or package_uninstall
    pkg_mod, pkg_list, pkg_unstable, pkg_result,
    \* one dependency and what its two phases yield
    phase_mod, phase_dep, phase_build, phase_incorporate

mainVars == <<pythons, archs, native, pc, i, j, build, dockerfile, log, raised,
              enumerated, stdout>>

planVars == <<program, deps, target, seen_names, calls>>

resolveVars == <<arg_python, arg_arch, resolved>>

runVars == <<run_args, run_result>>

envVars == <<env_cls, env_k, env_v, env_result>>

pkgVars == <<pkg_mod, pkg_list, pkg_unstable, pkg_result>>

phaseVars == <<phase_mod, phase_dep, phase_build, phase_incorporate>>

unitVars == <<envVars, pkgVars, phaseVars>>

vars == <<mainVars, planVars, resolveVars, runVars, unitVars>>

(***************************************************************************)
(* Bounds and input sets                                                   *)
(***************************************************************************)

MaxPythons == 3

MaxArchs == 2

MaxDeps == 2

MaxCalls == 2

MaxVerLen == 6

MaxFrags == 3

MaxValLen == 3

MaxPkgs == 3

\* The sequences over S of length lo..hi without repetition.
InjSeqs(S, lo, hi) ==
    { s \in UNION { [1..n -> S] : n \in lo..hi } :
        \A a, b \in 1..Len(s) : a # b => s[a] # s[b] }

\* The versions main is written with.
MainPythons == << <<"3", ".", "7", ".", "1", "6">>, <<"3", ".", "8", ".", "1", "6">>, <<"3", ".", "1", "0", ".", "1", "0">> >>

MatrixVersions == { MainPythons[k] : k \in 1..Len(MainPythons) }

\* The architectures of ARCHS and one that is not among them.
ArchUniverse == {"arm64", "amd64", "riscv64"}

NoBuild ==
    [cls |-> "None", arch |-> "", python |-> <<>>, builder_os |-> <<>>,
     wheel_platform |-> <<>>]

NoException == [cls |-> "None", cmd |-> <<>>, returncode |-> 0]

MainInit ==
    /\ pythons \in InjSeqs(MatrixVersions, 1, MaxPythons)
    /\ archs \in InjSeqs(ArchUniverse, 1, MaxArchs)
    /\ native \in { ARCHS[k] : k \in 1..Len(ARCHS) }
    /\ pc = "probe"
    /\ i = 1
    /\ j = 1
    /\ build = NoBuild
    /\ dockerfile = None
    /\ log = <<>>
    /\ raised = NoException
    /\ enumerated = <<>>
    /\ stdout = <<>>

\* The state of main when the model is about something else.
MainIdle ==
    /\ pythons = MainPythons
    /\ archs = ARCHS
    /\ native = "amd64"
    /\ pc = "probe"
    /\ i = 1
    /\ j = 1
    /\ build = NoBuild
    /\ dockerfile = None
    /\ log = <<>>
    /\ raised = NoException
    /\ enumerated = <<>>
    /\ stdout = <<>>

(***************************************************************************)
(* main                                                                    *)
(***************************************************************************)

\* subprocess.run without check=True: a non-zero exit status raises nothing.
run_Unchecked(returncode) == "CompletedProcess"

\* run = partial(subprocess.run, check=True): a non-zero exit status raises.
run(returncode) ==
    IF returncode # 0 THEN "CalledProcessError" ELSE "CompletedProcess"

TmpName == <<"TMP", ".Dockerfile">>

REPO_ROOT == <<"REPO_ROOT">>

\* The argument list of each engine call of main.
EngineCmd(step, self) ==
    CASE step = "probe" -> << <<"docker">>, <<"buildx">>, <<"ls">> >>
      [] step = "build" ->
            << <<"docker">>, <<"buildx">>, <<"build">>, <<"-t">>, container_name(self),
               <<"--platform">>, <<"linux/", self.arch>>, <<"-f">>, TmpName, REPO_ROOT >>
      [] step = "rm" -> << <<"docker">>, <<"rm">>, <<"-f">>, container_name(self) >>
      [] step = "create" ->
            << <<"docker">>, <<"create">>, <<"--rm">>, <<"-ti">>, <<"--name">>,
               container_name(self), container_name(self), <<"true">> >>
      [] step = "cp" ->
            << <<"docker">>, <<"cp">>,
               container_name(self) \o <<":/pulsar/build/pulsar-client-cpp/python/wheelhouse/.">>,
               REPO_ROOT \o <<"/pulsar-client-cpp/python/wheelhouse">> >>

\* The body of the with block with docker create ahead of docker rm.
StepAfter_CreateFirst(step) ==
    CASE step = "build" -> "create"
      [] step = "create" -> "rm"
      [] step = "rm" -> "cp"
      [] step = "cp" -> "for"

\* The statement that follows each engine call inside the with block.
StepAfter(step) ==
    CASE step = "build" -> "rm"
      [] step = "rm" -> "create"
      [] step = "create" -> "cp"
      [] step = "cp" -> "for"

\* An inner loop that is left after its first iteration.
Advance_FirstArchOnly(pi, ai, narchs) == <<pi + 1, 1>>

\* The two nested for loops: the positions of the next iteration.
Advance(pi, ai, narchs) ==
    IF ai < narchs THEN <<pi, ai + 1>> ELSE <<pi + 1, 1>>

\* run([...]) at step: the call is logged with its exit status; a failure
\* raises CalledProcessError out of main (leaving the with block removes the
\* temporary file), a success goes on with the next statement.  After the
\* last call of the body comes the success message and the next iteration.
EngineCall(step) ==
    \E returncode \in {0, 1} :
        /\ log' = Append(log, [step |-> step, cmd |-> EngineCmd(step, build),
                               returncode |-> returncode, pi |-> i, ai |-> j])
        /\ IF run(returncode) = "CalledProcessError"
           THEN /\ raised' = [cls |-> "CalledProcessError",
                              cmd |-> EngineCmd(step, build), returncode |-> returncode]
                /\ pc' = "raised"
                /\ dockerfile' = None
                /\ UNCHANGED <<i, j, stdout>>
           ELSE /\ pc' = StepAfter(step)
                /\ UNCHANGED raised
                /\ IF StepAfter(step) = "for"
                   THEN /\ dockerfile' = None
                        /\ stdout' = Append(stdout, <<"Successfully built: ">> \o BuildStr(build))
                        /\ i' = Advance(i, j, Len(archs))[1]
                        /\ j' = Advance(i, j, Len(archs))[2]
                   ELSE UNCHANGED <<dockerfile, stdout, i, j>>
        /\ UNCHANGED <<pythons, archs, native, build, enumerated>>

\* run(['docker', 'buildx', 'ls'])
Probe ==
    /\ pc = "probe"
    /\ \E returncode \in {0, 1} :
        /\ log' = Append(log, [step |-> "probe", cmd |-> EngineCmd("probe", build),
                               returncode |-> returncode, pi |-> 0, ai |-> 0])
        /\ IF run(returncode) = "CalledProcessError"
           THEN /\ raised' = [cls |-> "CalledProcessError",
                              cmd |-> EngineCmd("probe", build), returncode |-> returncode]
                /\ pc' = "raised"
           ELSE /\ pc' = "for"
                /\ UNCHANGED raised
    /\ UNCHANGED <<pythons, archs, native, i, j, build, dockerfile, enumerated, stdout>>
    /\ UNCHANGED <<planVars, resolveVars, runVars, unitVars>>

\* The head of the loop body: PulsarClientBuild(python, arch), the message,
\* the temporary file with the rendered dockerfile_lines(), container_name.
Enter ==
    /\ pc = "for"
    /\ i <= Len(pythons)
    /\ LET b == PulsarClientBuild(pythons[i], archs[j])
       IN  IF IsError(b)
           THEN /\ raised' = [cls |-> b.cls, cmd |-> <<>>, returncode |-> 0]
                /\ pc' = "raised"
                /\ UNCHANGED <<build, dockerfile, enumerated, stdout>>
           ELSE /\ build' = b
                /\ enumerated' = Append(enumerated, <<pythons[i], archs[j]>>)
                /\ stdout' = Append(stdout, <<"About to build: ">> \o BuildStr(b))
                /\ dockerfile' =
                       Line(Render(dockerfile_lines("wheels", b, layer_dependencies("wheels"),
                                                    {}).template))
                /\ pc' = "build"
                /\ UNCHANGED raised
    /\ UNCHANGED <<pythons, archs, native, i, j, log>>
    /\ UNCHANGED <<planVars, resolveVars, runVars, unitVars>>

Build ==
    /\ pc = "build"
    /\ EngineCall("build")
    /\ UNCHANGED <<planVars, resolveVars, runVars, unitVars>>

Rm ==
    /\ pc = "rm"
    /\ EngineCall("rm")
    /\ UNCHANGED <<planVars, resolveVars, runVars, unitVars>>

Create ==
    /\ pc = "create"
    /\ EngineCall("create")
    /\ UNCHANGED <<planVars, resolveVars, runVars, unitVars>>

Cp ==
    /\ pc = "cp"
    /\ EngineCall("cp")
    /\ UNCHANGED <<planVars, resolveVars, runVars, unitVars>>

\* The loops are exhausted: main returns.
Finish ==
    /\ pc = "for"
    /\ i > Len(pythons)
    /\ pc' = "done"
    /\ UNCHANGED <<pythons, archs, native, i, j, build, dockerfile, log, raised,
                   enumerated, stdout>>
    /\ UNCHANGED <<planVars, resolveVars, runVars, unitVars>>

MainNext == Probe \/ Enter \/ Build \/ Rm \/ Create \/ Cp \/ Finish

(***************************************************************************)
(* A process that calls dockerfile_lines, once or again                    *)
(***************************************************************************)

\* The dependencies the generator is run with: two of the list as written
\* and one whose name is that of the consuming stage, each also inline.
DepUniverse ==
    { [name |-> s.name, version |-> s.version, url |-> s.url, inline |-> inl,
       configure_stanza |-> s.configure_stanza] :
        s \in { layer_dependencies("wheels")[2],
                layer_dependencies("wheels")[3],
                MakefileSpec(<<"main">>, <<"1", ".", "0">>,
                    <<"https://example.org/main-", "{version}", ".tar.gz">>,
                    DefaultConfigure) },
        inl \in BOOLEAN }

DepLists == UNION { [1..n -> DepUniverse] : n \in 0..MaxDeps }

PlanTargets ==
    { PulsarClientBuild(<<"3", ".", "7", ".", "1", "6">>, "amd64"), PulsarClientBuild(<<"3", ".", "1", "0", ".", "1", "0">>, "arm64") }

PlanInit ==
    /\ program \in {"zbuild", "wheels"}
    /\ deps \in DepLists \cup {layer_dependencies(program)}
    /\ target \in IF program = "zbuild" THEN {NoBuild} ELSE PlanTargets
    /\ seen_names = {}
    /\ calls = <<>>

PlanIdle ==
    /\ program = "wheels"
    /\ deps = <<>>
    /\ target = NoBuild
    /\ seen_names = {}
    /\ calls = <<>>

\* One call of dockerfile_lines and the rendering of what it returns, as
\* __main__ of zbuild.py and main of build-linux-wheels.py do it.  A rejected
\* dependency name raises AssertionError: there is no template and no text.
CallOutcome(mod) ==
    \E r \in {dockerfile_lines(mod, target, deps, seen_names)} :
        /\ calls' = Append(calls,
                [ok |-> r.ok,
                 error |-> IF r.ok THEN "None" ELSE "AssertionError",
                 template |-> r.template,
                 text |-> IF r.ok THEN Render(r.template) ELSE <<>>])
        /\ seen_names' = r.seen

ZbuildCall ==
    /\ program = "zbuild"
    /\ Len(calls) < MaxCalls
    /\ CallOutcome("zbuild")
    /\ UNCHANGED <<program, deps, target>>
    /\ UNCHANGED <<mainVars, resolveVars, runVars, unitVars>>

WheelsCall ==
    /\ program = "wheels"
    /\ Len(calls) < MaxCalls
    /\ CallOutcome("wheels")
    /\ UNCHANGED <<program, deps, target>>
    /\ UNCHANGED <<mainVars, resolveVars, runVars, unitVars>>

PlanNext == ZbuildCall \/ WheelsCall

(***************************************************************************)
(* One resolution of a target: PulsarClientBuild(python, arch)             *)
(***************************************************************************)

VersionAlphabet == {"0", "1", "3", "9", "."}

\* Every string over the alphabet up to the bound, and the versions of main,
\* two prereleases and a release that needs a digit outside the alphabet.
VersionStrings ==
    UNION { [1..n -> VersionAlphabet] : n \in 0..MaxVerLen }
    \cup MatrixVersions
    \cup { <<"3", ".", "1", "0", "a", "1">>, <<"3", ".", "1", "0", ".", "0", "b", "2">>, <<"3", ".", "9", "b", "7">>, <<"2", ".", "7", ".", "1", "8">> }

ResolveInit ==
    /\ arg_python \in VersionStrings
    /\ arg_arch \in ArchUniverse
    /\ resolved = NoBuild

ResolveIdle ==
    /\ arg_python = <<>>
    /\ arg_arch = ""
    /\ resolved = NoBuild

Resolve ==
    /\ resolved = NoBuild
    /\ resolved' = PulsarClientBuild(arg_python, arg_arch)
    /\ UNCHANGED <<arg_python, arg_arch>>
    /\ UNCHANGED <<mainVars, planVars, runVars, unitVars>>

ResolveNext == Resolve

(***************************************************************************)
(* One construction and rendering of a RUN                                 *)
(***************************************************************************)

\* Fragments: plain ones, one of two chunks, the empty str and one that
\* holds an && of its own.
FragmentUniverse ==
    { <<"apt update">>, <<"cd ", "/pulsar/scratch">>, <<"make install">>, <<>>,
      <<"./bootstrap.sh && ./configure">> }

RunInit ==
    /\ run_args \in UNION { [1..n -> FragmentUniverse] : n \in 0..MaxFrags }
    /\ run_result = None

RunIdle ==
    /\ run_args = <<>>
    /\ run_result = None

\* RUN(*args), and str() of the instruction if there is one.
ConstructRun ==
    /\ run_result = None
    /\ run_result' = IF IsError(RUN(run_args)) THEN RUN(run_args)
                     ELSE [cls |-> "rendered", payload |-> Str(RUN(run_args))]
    /\ UNCHANGED run_args
    /\ UNCHANGED <<mainVars, planVars, resolveVars, unitVars>>

RunNext == ConstructRun

(***************************************************************************)
(* One construction of an ENV or ARG                                       *)
(***************************************************************************)

\* The characters of a value: the two quotes, a letter and a blank.
ValueAlphabet == {"\"", "'", "a", " "}

EnvInit ==
    /\ env_cls \in {"ENV", "ARG"}
    /\ env_k = <<"CFLAGS">>
    /\ env_v \in UNION { [1..n -> ValueAlphabet] : n \in 0..MaxValLen }
    /\ env_result = None

EnvIdle ==
    /\ env_cls = "ENV"
    /\ env_k = <<>>
    /\ env_v = <<>>
    /\ env_result = None

\* ENV(k, v) or ARG(k, v): the instruction, with the value its payload holds
\* between the double quotes.
ConstructEnv ==
    /\ env_result = None
    /\ env_result' = [cls |-> env_cls,
                      payload |-> IF env_cls = "ENV" THEN ENV(env_k, env_v).payload
                                  ELSE ARG(env_k, env_v).payload,
                      v |-> StripQuotes(env_v)]
    /\ UNCHANGED <<env_cls, env_k, env_v>>
    /\ UNCHANGED <<mainVars, planVars, resolveVars, runVars, pkgVars, phaseVars>>

EnvNext == ConstructEnv

(***************************************************************************)
(* One call of package_install or package_uninstall                        *)
(***************************************************************************)

PackageUniverse == { <<"z", "l", "i", "b">>, <<"c", "u", "r", "l">>, <<"z", "l", "i", "b", "1", "g">>, <<"l", "i", "b", "s", "s", "l", "-", "d", "e", "v">> }

PkgInit ==
    /\ pkg_mod \in {"wheels", "zbuild"}
    /\ pkg_list \in InjSeqs(PackageUniverse, 0, MaxPkgs)
    /\ pkg_unstable \in IF pkg_mod = "wheels" THEN BOOLEAN ELSE {FALSE}
    /\ pkg_result = None

PkgIdle ==
    /\ pkg_mod = "wheels"
    /\ pkg_list = <<>>
    /\ pkg_unstable = FALSE
    /\ pkg_result = None

\* PulsarDependencyDockerInstall.package_install(packages, unstable)
PackageInstall ==
    /\ pkg_result = None
    /\ pkg_result' = [helper |-> "install",
                      instr |-> package_install(pkg_mod, pkg_list, pkg_unstable)]
    /\ UNCHANGED <<pkg_mod, pkg_list, pkg_unstable>>
    /\ UNCHANGED <<mainVars, planVars, resolveVars, runVars, envVars, phaseVars>>

\* PulsarDependencyDockerInstall.package_uninstall(packages)
PackageUninstall ==
    /\ pkg_result = None
    /\ pkg_result' = [helper |-> "uninstall", instr |-> package_uninstall(pkg_list)]
    /\ UNCHANGED <<pkg_mod, pkg_list, pkg_unstable>>
    /\ UNCHANGED <<mainVars, planVars, resolveVars, runVars, envVars, phaseVars>>

PkgNext == PackageInstall \/ PackageUninstall

(***************************************************************************)
(* One dependency and its two phases                                       *)
(***************************************************************************)

\* The dependencies either file constructs, each MakefileDependency with and
\* without inline, and the Python dependency for the versions of main.
PhaseDeps(mod) ==
    { DependencyFields("MakefileDependency", s.name, s.version, s.url, inl,
                       s.configure_stanza) :
        s \in { layer_dependencies(mod)[k] : k \in 1..Len(layer_dependencies(mod)) },
        inl \in BOOLEAN }
    \cup { PulsarBoostDependency(mod) }
    \cup { PulsarPythonDependency(mod, v) : v \in MatrixVersions }

NoPhase == << None >>

PhaseInit ==
    /\ phase_mod \in {"wheels", "zbuild"}
    /\ phase_dep \in PhaseDeps(phase_mod)
    /\ phase_build = NoPhase
    /\ phase_incorporate = NoPhase

PhaseIdle ==
    /\ phase_mod = "wheels"
    /\ phase_dep = None
    /\ phase_build = NoPhase
    /\ phase_incorporate = NoPhase

\* list(d.execute_build())
ExecuteBuild ==
    /\ phase_build = NoPhase
    /\ phase_build' = execute_build(phase_mod, phase_dep)
    /\ UNCHANGED <<phase_mod, phase_dep, phase_incorporate>>
    /\ UNCHANGED <<mainVars, planVars, resolveVars, runVars, envVars, pkgVars>>

\* list(d.incorporate_build())
IncorporateBuild ==
    /\ phase_incorporate = NoPhase
    /\ phase_incorporate' = incorporate_build(phase_dep)
    /\ UNCHANGED <<phase_mod, phase_dep, phase_build>>
    /\ UNCHANGED <<mainVars, planVars, resolveVars, runVars, envVars, pkgVars>>

PhaseNext == ExecuteBuild \/ IncorporateBuild

UnitIdle == EnvIdle /\ PkgIdle /\ PhaseIdle

(***************************************************************************)
(* Specifications                                                          *)
(***************************************************************************)

Init == MainInit /\ PlanIdle /\ ResolveIdle /\ RunIdle /\ UnitIdle

Next == MainNext

\* main of build-linux-wheels.py over a matrix.
Spec == Init /\ [][Next]_vars

InitPlan == MainIdle /\ PlanInit /\ ResolveIdle /\ RunIdle /\ UnitIdle

\* A process calling dockerfile_lines up to MaxCalls times.
SpecPlan == InitPlan /\ [][PlanNext]_vars

InitResolve == MainIdle /\ PlanIdle /\ ResolveInit /\ RunIdle /\ UnitIdle

\* PulsarClientBuild(python, arch) for one pair.
SpecResolve == InitResolve /\ [][ResolveNext]_vars

InitRun == MainIdle /\ PlanIdle /\ ResolveIdle /\ RunInit /\ UnitIdle

\* RUN(*args) for one argument list.
SpecRun == InitRun /\ [][RunNext]_vars

OthersIdle == MainIdle /\ PlanIdle /\ ResolveIdle /\ RunIdle

InitEnv == OthersIdle /\ EnvInit /\ PkgIdle /\ PhaseIdle

\* ENV(k, v) or ARG(k, v) for one pair.
SpecEnv == InitEnv /\ [][EnvNext]_vars

InitPkg == OthersIdle /\ EnvIdle /\ PkgInit /\ PhaseIdle

\* package_install or package_uninstall for one list of packages.
SpecPkg == InitPkg /\ [][PkgNext]_vars

InitPhase == OthersIdle /\ EnvIdle /\ PkgIdle /\ PhaseInit

\* execute_build and incorporate_build of one dependency.
SpecPhase == InitPhase /\ [][PhaseNext]_vars

(***************************************************************************)
(* Properties of main (checked under Spec)                                 *)
(***************************************************************************)

Terminal == pc \in {"done", "raised"}

SupportedArchs == {"arm64", "amd64"}

AllSupported == \A a \in 1..Len(archs) : archs[a] \in SupportedArchs

NumTargets == Len(pythons) * Len(archs)

\* The place of the pair (pythons[pi], archs[ai]) in the order of the loops.
TargetIndex(pi, ai) == (pi - 1) * Len(archs) + ai

TargetCalls == { k \in 1..Len(log) : log[k].step # "probe" }

StepNo(step) ==
    CASE step = "build" -> 1 [] step = "rm" -> 2 [] step = "create" -> 3
      [] step = "cp" -> 4 [] OTHER -> 0

\* The targets one of whose engine calls failed.
FailedTargets ==
    { t \in (1..Len(pythons)) \X (1..Len(archs)) :
        \E k \in TargetCalls :
            log[k].pi = t[1] /\ log[k].ai = t[2] /\ log[k].returncode # 0 }

\* An argument of cmd starts with name.
Mentions(cmd, name) ==
    \E a \in 1..Len(cmd) :
        Len(cmd[a]) >= Len(name) /\ SubSeq(cmd[a], 1, Len(name)) = name

\* The targets the exception that ended main names: those whose container
\* name stands in the command of the CalledProcessError.
ReportedTargets ==
    { t \in (1..Len(pythons)) \X (1..Len(archs)) :
        /\ raised.cls = "CalledProcessError"
        /\ Mentions(raised.cmd,
                    <<"pulsar_python_client_build", "_">> \o pythons[t[1]]
                    \o <<"_", archs[t[2]]>>) }

\* The report gives a reason: the command and its non-zero exit status.
ReasonGiven ==
    raised.cls = "CalledProcessError" => Len(raised.cmd) > 0 /\ raised.returncode # 0

\* C1, as claimed: a build-and-extract failure on one target does not keep
\* the later targets from being attempted: when main has ended, every target
\* after a failed one has had its build step started.
C1_LaterTargetsAttempted ==
    (Terminal /\ AllSupported) =>
        \A k \in TargetCalls :
            log[k].returncode # 0 =>
                \A pi \in 1..Len(pythons), ai \in 1..Len(archs) :
                    TargetIndex(pi, ai) > TargetIndex(log[k].pi, log[k].ai) =>
                        \E m \in TargetCalls :
                            log[m].step = "build" /\ log[m].pi = pi /\ log[m].ai = ai

\* C1, amended: a build-and-extract failure on one target ends the matrix
\* run.  The failing engine call is the last call made, main has raised
\* CalledProcessError for that very command, and no call belongs to a target
\* after the failing one.
C1_FailureEndsRun ==
    \A k \in 1..Len(log) :
        log[k].returncode # 0 =>
            /\ k = Len(log)
            /\ pc = "raised"
            /\ raised.cls = "CalledProcessError"
            /\ raised.cmd = log[k].cmd
            /\ \A m \in TargetCalls :
                   TargetIndex(log[m].pi, log[m].ai) <= TargetIndex(log[k].pi, log[k].ai)

\* C1, witness: a target's engine call has failed while targets of the
\* matrix were still to come.
C1_Witness ==
    /\ pc = "raised"
    /\ AllSupported
    /\ Len(log) > 1
    /\ log[Len(log)].returncode # 0
    /\ TargetIndex(log[Len(log)].pi, log[Len(log)].ai) < NumTargets

\* C2, as claimed: the failures of the targets are collected and surfaced
\* at the end of the matrix run: when the run has ended every target of the
\* matrix has been gone through, the reported failed targets are exactly the
\* targets whose build-and-extract failed, each with a reason, and a run
\* without a failed target has ended cleanly.
C2_FailuresReported ==
    (Terminal /\ AllSupported) =>
        /\ Len(enumerated) = NumTargets
        /\ ReportedTargets = FailedTargets
        /\ ReasonGiven
        /\ (FailedTargets = {} => pc = "done" /\ raised = NoException)

\* C2, amended: failures are not collected: the first build-and-extract
\* failure ends the run and is surfaced at once as the CalledProcessError of
\* the failing command.  When the run has ended the reported failed targets
\* are exactly the targets whose build-and-extract failed, of which there is
\* at most one, with the command and its non-zero exit status as the reason;
\* a run over supported architectures in which no engine call failed, the
\* first docker buildx ls included, has ended cleanly with nothing reported.
C2_FirstFailureReported ==
    Terminal =>
        /\ ReportedTargets = FailedTargets
        /\ Cardinality(FailedTargets) <= 1
        /\ ReasonGiven
        /\ FailedTargets # {} =>
               (pc = "raised" /\ raised.cls = "CalledProcessError")
        /\ (AllSupported /\ \A k \in 1..Len(log) : log[k].returncode = 0)
               => (pc = "done" /\ raised = NoException /\ ReportedTargets = {})

\* C2, witness: the run has ended with the failure of a target after an
\* earlier target was built, and that target is the one reported.
C2_Witness ==
    /\ pc = "raised"
    /\ AllSupported
    /\ Cardinality(FailedTargets) = 1
    /\ ReportedTargets = FailedTargets
    /\ \E k \in TargetCalls : log[k].step = "cp" /\ log[k].returncode = 0

\* C3: the engine steps of the targets are made one target after the other
\* in the order of the loops, never interleaved: the first call is the
\* probe; a build step starts the first target or follows the successful cp
\* of the target just before it; every other step follows the successful
\* step before it of the same target; no step of a target is made twice;
\* and a run that ends without failure has built every target once.
C3_OneTargetAtATime ==
    /\ \A k \in 1..Len(log) : (log[k].step = "probe") <=> (k = 1)
    /\ \A k \in TargetCalls :
           LET b == log[k]
               a == log[k - 1]
           IN  /\ a.returncode = 0
               /\ IF b.step = "build"
                  THEN \/ a.step = "probe" /\ TargetIndex(b.pi, b.ai) = 1
                       \/ /\ a.step = "cp"
                          /\ TargetIndex(b.pi, b.ai) = TargetIndex(a.pi, a.ai) + 1
                  ELSE /\ a.pi = b.pi
                       /\ a.ai = b.ai
                       /\ StepNo(b.step) = StepNo(a.step) + 1
    /\ \A k, m \in TargetCalls :
           (log[k].step = log[m].step /\ log[k].pi = log[m].pi /\ log[k].ai = log[m].ai)
               => k = m
    /\ pc = "done" =>
           \A pi \in 1..Len(pythons), ai \in 1..Len(archs) :
               Cardinality({ k \in TargetCalls :
                               log[k].step = "build" /\ log[k].pi = pi /\ log[k].ai = ai }) = 1

\* C3, witness: the matrix of main has been built to the end, six targets
\* one after the other.
C3_Witness ==
    /\ pc = "done"
    /\ pythons = MainPythons
    /\ archs = ARCHS
    /\ Len(log) = 1 + 4 * NumTargets

\* C4, as claimed: a finished enumeration has resolved every (version,
\* architecture) pair exactly once, and every target of the native
\* architecture before every target of another architecture.
C4_NativeFirst ==
    (pc = "done") =>
        /\ Len(enumerated) = NumTargets
        /\ \A pi \in 1..Len(pythons), ai \in 1..Len(archs) :
               Cardinality({ k \in 1..Len(enumerated) :
                               enumerated[k] = <<pythons[pi], archs[ai]>> }) = 1
        /\ \A k, m \in 1..Len(enumerated) :
               (enumerated[k][2] = native /\ enumerated[m][2] # native) => k < m

\* C4, amended: the enumeration resolves the pairs version by version and,
\* within a version, in the order of the architectures as listed (arm64
\* before amd64 in ARCHS), whatever the native architecture; a finished
\* enumeration has resolved every pair exactly once.
C4_VersionMajorOrder ==
    /\ \A k \in 1..Len(enumerated) :
           enumerated[k] = << pythons[((k - 1) \div Len(archs)) + 1],
                              archs[((k - 1) % Len(archs)) + 1] >>
    /\ (pc = "done") =>
           /\ Len(enumerated) = NumTargets
           /\ \A pi \in 1..Len(pythons), ai \in 1..Len(archs) :
                  Cardinality({ k \in 1..Len(enumerated) :
                                  enumerated[k] = <<pythons[pi], archs[ai]>> }) = 1

\* C4, witness: the matrix of main has been enumerated to the end on an
\* amd64 machine.
C4_Witness ==
    /\ pc = "done"
    /\ pythons = MainPythons
    /\ archs = ARCHS
    /\ native = "amd64"
    /\ Len(enumerated) = 6

NewerPair(b) ==
    b.builder_os = <<"debian:10">> /\ b.wheel_platform = <<"manylinux_2_27">>

OlderPair(b) ==
    b.builder_os = <<"debian:9">> /\ b.wheel_platform = <<"manylinux_2_24">>

\* major.minor.patch against 3.10.0, number by number.
NumbersAtLeastCutoff(v) ==
    \/ v[1] > 3
    \/ v[1] = 3 /\ v[2] > 10
    \/ v[1] = 3 /\ v[2] = 10

NumbersAboveCutoff(v) ==
    \/ v[1] > 3
    \/ v[1] = 3 /\ v[2] > 10
    \/ v[1] = 3 /\ v[2] = 10 /\ v[3] > 0

\* a <= b, number by number from the left.
NumbersLeq(a, b) ==
    \/ a[1] < b[1]
    \/ a[1] = b[1] /\ a[2] < b[2]
    \/ a[1] = b[1] /\ a[2] = b[2] /\ a[3] <= b[3]

\* Releases to compare a resolved version with.
ReferenceVersions ==
    MatrixVersions \cup { <<"3", ".", "9">>, <<"3", ".", "9", ".", "0">>, <<"3", ".", "9", ".", "9">>, <<"3", ".", "1", "0">>, <<"3", ".", "1", "0", ".", "0">>, <<"3", ".", "1", "0", ".", "1">>, <<"3", ".", "1", "1", ".", "0">>, <<"3", ".", "1", "0", "0", ".", "0">>, <<"1", "0", ".", "0">>, <<"2", ".", "7", ".", "1", "8">> }

\* C5: a target of a supported architecture and a well-formed version gets
\* the newer pair (debian:10, manylinux_2_27) exactly when its version is at
\* least 3.10 number by number, where a prerelease (3.10a1) counts as below
\* its release, and the older pair (debian:9, manylinux_2_24) otherwise;
\* 3.9.0 gets the older pair and 3.10.0 the newer one; and the choice is
\* monotonic: no release at or above a version that got the newer pair gets
\* the older one.
C5_NumericCutoff ==
    (resolved # NoBuild /\ resolved.cls = "PulsarClientBuild") =>
        LET v == StrictVersion(arg_python)
            newer == IF v.prerelease = <<>>
                     THEN NumbersAtLeastCutoff(v.version)
                     ELSE NumbersAboveCutoff(v.version)
        IN  /\ resolved.arch \in SupportedArchs
            /\ resolved.python = arg_python
            /\ newer => NewerPair(resolved)
            /\ ~newer => OlderPair(resolved)
            /\ arg_python = <<"3", ".", "9", ".", "0">> => OlderPair(resolved)
            /\ arg_python = <<"3", ".", "1", "0", ".", "0">> => NewerPair(resolved)
            /\ \A w \in ReferenceVersions :
                   (NewerPair(resolved)
                      /\ NumbersLeq(v.version, StrictVersion(w).version))
                       => NewerPair(PulsarClientBuild(w, arg_arch))

\* C5, witness: 3.10.0 has been resolved to the newer pair, which its
\* spelling as a string ("3.10.0" < "3.9") would not give.
C5_Witness ==
    /\ resolved # NoBuild
    /\ resolved.cls = "PulsarClientBuild"
    /\ arg_python = <<"3", ".", "1", "0", ".", "0">>
    /\ StrLess(arg_python, <<"3", ".", "9">>)
    /\ NewerPair(resolved)

(***************************************************************************)
(* Properties of dockerfile_lines (checked under SpecPlan)                 *)
(***************************************************************************)

\* The names of the dependencies one call constructs, in the order of their
\* construction.
ConstructedNames ==
    [k \in 1..Len(deps) |-> deps[k].name] \o << <<"boost">>, <<"python">> >>

IsStageHeader(x) ==
    x.cls = "str" /\ Len(x.payload) >= 1 /\ x.payload[1] = "FROM "

\* The name after AS of a FROM line.
StageOf(x) ==
    LET at == CHOOSE k \in 1..Len(x.payload) : x.payload[k] = " AS "
    IN  SubSeq(x.payload, at + 1, Len(x.payload))

IsCopyFrom(x) ==
    x.cls = "COPY" /\ Len(x.payload) >= 1 /\ x.payload[1] = "--from="

\* The stage a COPY --from=<stage> names.
OriginOf(x) ==
    LET blank == CHOOSE k \in 2..Len(x.payload) :
                     x.payload[k] = " " /\ \A m \in 2..(k - 1) : x.payload[m] # " "
    IN  SubSeq(x.payload, 2, blank - 1)

DuplicateStageName(template) ==
    \E k, m \in 1..Len(template) :
        /\ k < m
        /\ IsStageHeader(template[k])
        /\ IsStageHeader(template[m])
        /\ StageOf(template[k]) = StageOf(template[m])

UnknownStageReference(template) ==
    \E m \in 1..Len(template) :
        /\ IsCopyFrom(template[m])
        /\ ~\E k \in 1..(m - 1) :
               IsStageHeader(template[k]) /\ StageOf(template[k]) = OriginOf(template[m])

\* C7: building and rendering the same plan again in the same process
\* succeeds again and gives the same text: every later call of
\* dockerfile_lines succeeds when the first did, with a rendering equal to
\* the first.
C7_SecondBuildIdentical ==
    \A k \in 2..Len(calls) :
        calls[1].ok => (calls[k].ok /\ calls[k].text = calls[1].text)

\* C8: no call of dockerfile_lines goes through with two dependencies of the
\* same name: the second construction is rejected, so a call that returned a
\* plan constructed dependencies of pairwise different names.
C8_CollidingNamesRejected ==
    \A c \in 1..Len(calls) :
        calls[c].ok =>
            \A k, m \in 1..Len(ConstructedNames) :
                ConstructedNames[k] = ConstructedNames[m] => k = m

RECURSIVE FragmentOffset(_, _)
FragmentOffset(args, k) ==
    IF k = 1 THEN 2 ELSE FragmentOffset(args, k - 1) + Len(args[k - 1]) + 1

\* C10: RUN of no fragment raises the assertion error and renders nothing;
\* RUN of a non-empty list renders as RUN, a blank, and the fragments in
\* their order, each one whole, with " && \<newline>    " between
\* neighbours and nothing else.
C10_FragmentsJoinedInOrder ==
    (run_result # None) =>
        IF Len(run_args) = 0
        THEN run_result = AssertionError
        ELSE LET text == run_result.payload
                 n == Len(run_args)
             IN  /\ run_result.cls = "rendered"
                 /\ Len(text) = FragmentOffset(run_args, n) + Len(run_args[n])
                 /\ text[1] = "RUN"
                 /\ text[2] = " "
                 /\ \A k \in 1..n :
                        SubSeq(text, FragmentOffset(run_args, k) + 1,
                               FragmentOffset(run_args, k) + Len(run_args[k])) = run_args[k]
                 /\ \A k \in 1..(n - 1) :
                        text[FragmentOffset(run_args, k + 1)] = " && \\\n    "

\* C10, witness: three different fragments have been rendered.
C10_Witness ==
    /\ run_result # None
    /\ run_result.cls = "rendered"
    /\ Len(run_args) = 3
    /\ run_args[1] # run_args[2]
    /\ run_args[2] # run_args[3]
    /\ run_args[1] # run_args[3]

(***************************************************************************)
(* Properties of ENV and ARG (specification SpecEnv)                       *)
(***************************************************************************)

\* C11: the stripping of quotes that ENV and ARG apply to the value is
\* idempotent: stripping the value the instruction holds once more changes
\* nothing.
C11_StripIdempotent ==
    (env_result # None) => StripQuotes(env_result.v) = env_result.v

(***************************************************************************)
(* Properties of the package helpers (specification SpecPkg)               *)
(***************************************************************************)

\* s cut at every chunk equal to sep, from position k on.
RECURSIVE SplitFrom(_, _, _)
SplitFrom(s, sep, k) ==
    IF \E p \in k..Len(s) : s[p] = sep
    THEN LET p == CHOOSE q \in k..Len(s) : s[q] = sep /\ \A r \in k..(q - 1) : s[r] # sep
         IN  << SubSeq(s, k, p - 1) >> \o SplitFrom(s, sep, p + 1)
    ELSE << SubSeq(s, k, Len(s)) >>

\* The fragments of the payload of a RUN.
Fragments(payload) == SplitFrom(payload, " && \\\n    ", 1)

\* The orderings of the packages of a list.
Orderings(packages) ==
    { q \in [1..Len(packages) -> { packages[k] : k \in 1..Len(packages) }] :
        \A a, b \in 1..Len(q) : a # b => q[a] # q[b] }

\* Strictly ascending in the order of str.
Ascending(q) == \A a, b \in 1..Len(q) : a < b => StrLess(q[a], q[b])

\* C12: the Command of package_install and of package_uninstall has the
\* fragments apt update, the apt install (apt purge) of the package names in
\* ascending order with one blank between them, for the uninstall apt
\* autoremove, and last the removal of the apt lists; and it is the same
\* Command for every ordering of the same packages.
C12_PackagesSortedFragmentsOrdered ==
    (pkg_result # None) =>
        LET frags == Fragments(pkg_result.instr.payload)
            names == CHOOSE q \in Orderings(pkg_list) : Ascending(q)
        IN  /\ pkg_result.instr.cls = "RUN"
            /\ frags[1] = <<"apt update">>
            /\ frags[Len(frags)] = <<"rm -rf /var/lib/apt/lists/*">>
            /\ IF pkg_result.helper = "install"
               THEN /\ Len(frags) = 3
                    /\ frags[2] =
                         IF pkg_mod = "zbuild"
                         THEN <<"apt install -y ">> \o Join(names, <<" ">>)
                         ELSE <<"apt install ">> \o Join(names, <<" ">>) \o <<" ">>
                              \o (IF pkg_unstable THEN <<"-t unstable">> ELSE <<>>)
                              \o <<" -y">>
                    /\ \A q \in Orderings(pkg_list) :
                           package_install(pkg_mod, q, pkg_unstable) = pkg_result.instr
               ELSE /\ Len(frags) = 4
                    /\ frags[2] = <<"apt purge -y ">> \o Join(names, <<" ">>)
                    /\ frags[3] = <<"apt autoremove --purge -y">>
                    /\ \A q \in Orderings(pkg_list) :
                           package_uninstall(q) = pkg_result.instr

\* C12, witness: three packages given in descending order have been
\* installed.
C12_Witness ==
    /\ pkg_result # None
    /\ pkg_result.helper = "install"
    /\ Len(pkg_list) = 3
    /\ StrLess(pkg_list[3], pkg_list[2])
    /\ StrLess(pkg_list[2], pkg_list[1])

(***************************************************************************)
(* Properties of the two phases (specification SpecPhase)                  *)
(***************************************************************************)

IsBinding(x) == x.cls \in {"ENV", "ARG"}

IsCommand(x) == x.cls = "RUN"

\* The Commands of a phase that begin by creating the workdir.
BuildCommands(out, d) ==
    { k \in 1..Len(out) :
        /\ IsCommand(out[k])
        /\ Fragments(out[k].payload)[1] = <<"mkdir -p ">> \o d.workdir }

\* A Command whose second fragment begins with the words given.
IsAptCommand(x, words) ==
    /\ IsCommand(x)
    /\ Len(Fragments(x.payload)) >= 2
    /\ Len(Fragments(x.payload)[2]) >= 1
    /\ Fragments(x.payload)[2][1] = words

\* C13: execute_build of every dependency yields its bindings (CFLAGS and
\* CXXFLAGS among them), then exactly one Command that creates the workdir,
\* whose fragments are mkdir -p workdir, cd workdir, the build recipe of the
\* dependency in its order and ldconfig last, then the cleanup.  Ahead of the
\* bindings stand only the ruler and stage header of a MakefileDependency;
\* the Python dependency has the install of the header packages and the
\* guard on INSTALL_FOLDER between the bindings and that Command and the
\* purge of the packages after it; the other dependencies have nothing after
\* it.
C13_BuildPhaseOrder ==
    (phase_build # NoPhase) =>
        LET out == phase_build
            d == phase_dep
            isPython == d.cls = "PulsarPythonDependency"
        IN  \E b \in 1..Len(out) :
                /\ BuildCommands(out, d) = {b}
                /\ Fragments(out[b].payload) =
                       << <<"mkdir -p ">> \o d.workdir, <<"cd ">> \o d.workdir >>
                       \o build_stanza(phase_mod, d)
                       \o << <<"ldconfig">> >>
                /\ \E k \in 1..(b - 1) :
                       out[k] = [cls |-> "ENV", payload |-> <<"CFLAGS", "=", "\"", "-fPIC -O3", "\"">>]
                /\ \E k \in 1..(b - 1) :
                       out[k] = [cls |-> "ENV", payload |-> <<"CXXFLAGS", "=", "\"", "-fPIC -O3", "\"">>]
                /\ \A k \in 1..Len(out) :
                       /\ IsBinding(out[k]) => k < (IF isPython THEN b - 2 ELSE b)
                       /\ out[k].cls = "str" =>
                              /\ d.cls = "MakefileDependency"
                              /\ \A n \in 1..(k - 1) : out[n].cls = "str"
                       /\ (k < (IF isPython THEN b - 2 ELSE b)) =>
                              (IsBinding(out[k]) \/ out[k].cls = "str")
                /\ IF isPython
                   THEN /\ b >= 3
                        /\ IsAptCommand(out[b - 2],
                               IF phase_mod = "zbuild" THEN "apt install -y " ELSE "apt install ")
                        /\ Fragments(out[b - 1].payload) = << <<"test ! -d ">> \o INSTALL_FOLDER >>
                        /\ IsCommand(out[b - 1])
                        /\ Len(out) = b + 1
                        /\ IsAptCommand(out[b + 1], "apt purge -y ")
                   ELSE Len(out) = b

\* C13, witness: the build phase of the Python dependency of
\* build-linux-wheels.py has been taken.
C13_Witness ==
    /\ phase_build # NoPhase
    /\ phase_mod = "wheels"
    /\ phase_dep.cls = "PulsarPythonDependency"
    /\ Len(phase_build) = 7

InstallFromWorkdir(d) ==
    [cls |-> "RUN",
     payload |-> <<"cd ">> \o d.workdir \o <<" && \\\n    ", "make install", " && \\\n    ", "rm -rf ">>
                 \o d.workdir \o <<" && \\\n    ", "ldconfig">>]

\* C14: incorporate_build of a MakefileDependency that is not inline yields
\* exactly RUN mkdir -p workdir, the COPY of the workdir from the stage
\* pulsar_build_<name> of the dependency, and the RUN that changes into the
\* workdir, runs make install and removes the workdir; of an inline one only
\* that last RUN.  execute_build of an inline one has no stage header, of
\* another one exactly the header of its own stage.
C14_IncorporatePhaseShape ==
    (phase_dep # None /\ phase_dep.cls = "MakefileDependency") =>
        LET d == phase_dep
            inc == phase_incorporate
            out == phase_build
            stage == <<"pulsar_build_">> \o d.name
        IN  /\ (inc # NoPhase /\ ~d.inline) =>
                   /\ Len(inc) = 3
                   /\ inc[1] = [cls |-> "RUN", payload |-> <<"mkdir -p ">> \o d.workdir]
                   /\ inc[2] = [cls |-> "COPY",
                                payload |-> <<"--from=">> \o stage \o <<" ">> \o d.workdir
                                            \o <<" ">> \o d.workdir \o <<"/">>]
                   /\ OriginOf(inc[2]) = stage
                   /\ inc[3] = InstallFromWorkdir(d)
            /\ (inc # NoPhase /\ d.inline) => inc = << InstallFromWorkdir(d) >>
            /\ (out # NoPhase /\ d.inline) =>
                   \A k \in 1..Len(out) : ~IsStageHeader(out[k])
            /\ (out # NoPhase /\ ~d.inline) =>
                   /\ Cardinality({ k \in 1..Len(out) : IsStageHeader(out[k]) }) = 1
                   /\ \A k \in 1..Len(out) :
                          IsStageHeader(out[k]) => StageOf(out[k]) = stage

\* C14, witness: both phases of a MakefileDependency that is not inline
\* have been taken.
C14_Witness ==
    /\ phase_dep # None
    /\ phase_dep.cls = "MakefileDependency"
    /\ phase_build # NoPhase
    /\ phase_incorporate # NoPhase
    /\ ~phase_dep.inline
    /\ Len(phase_incorporate) = 3

(***************************************************************************)
(* The order of the phases in a plan (specification SpecPlan)              *)
(***************************************************************************)

DistinctNames(specs) ==
    \A a, b \in 1..Len(specs) : specs[a].name = specs[b].name => a = b

StageHeaders(t) == { p \in 1..Len(t) : IsStageHeader(t[p]) }

\* The header of the consuming stage: the last stage the plan declares.
MainHeader(t) == CHOOSE p \in StageHeaders(t) : \A q \in StageHeaders(t) : q <= p

\* The stage position m of the plan lies in.
StageAt(t, m) ==
    StageOf(t[CHOOSE p \in StageHeaders(t) :
                p < m /\ \A q \in StageHeaders(t) : q < m => q <= p])

\* Where the build Command of a dependency stands: the one that downloads
\* its archive.
BuildAt(t, s) ==
    { p \in 1..Len(t) :
        /\ IsCommand(t[p])
        /\ Len(Fragments(t[p].payload)) >= 3
        /\ Fragments(t[p].payload)[3] =
               download(Format(s.url, s.version, Replace(s.version, ".", "_"))) }

\* Where the incorporate phase of a dependency is announced.
IncorporateAt(t, s) ==
    { p \in 1..Len(t) :
        t[p] = [cls |-> "str",
                payload |-> <<"# Incorporate build ", "pulsar_build_">> \o s.name] }

\* Where the plan installs from a copied workdir.
InstallsAt(t) ==
    { p \in 1..Len(t) :
        IsCommand(t[p]) /\ Len(Fragments(t[p].payload)) >= 2
        /\ Fragments(t[p].payload)[2] = <<"make install">> }

====
